---- MODULE Spec2Model ----
(***************************************************************************)
(* The Socket.IO chat gateway of server/app.py: the /chat namespace        *)
(* handlers (connect, join_room, leave_room, chat_message, heartbeat,      *)
(* disconnect) and the Redis presence helpers they call.                   *)
(*                                                                         *)
(* Several server processes run the same module.  Each has its own         *)
(* Socket.IO room table (SocketIO is built without a message queue); the   *)
(* Redis keys online:<uid> and room:<id>:online are shared by all.         *)
(* A handler runs to completion as one step.                               *)
(***************************************************************************)
EXTENDS Integers, Sequences, FiniteSets, TLC

\* ------------------------------------------------------------------ sets

None == "None"

\* The server processes, and the client connections (Socket.IO session ids)
\* with the process that accepted each.
Procs == {"p1", "p2"}
Sids == {"s1", "s2", "s3"}
ProcOf(s) == IF s = "s3" THEN "p2" ELSE "p1"

\* Token subjects (user ids as strings) and room ids that clients use.
Identities == {"u1", "u2"}
Rooms == {"r1", "r2"}

\* setex(..., 60, ...) of set_online, and the [:2000] of on_message.
TTL == 60
MaxTextLen == 2000

\* Bounds of the exploration: the clock stops at MaxTime; the longest text has
\* MaxTextLen + Over code points.
MaxTime == 63
Over == 2

\* The number of publications to rooms followed into the queues of their
\* recipients.
MaxLog == 4

\* The number of rosters followed into the queues of their recipients while
\* handlers interleave.
MaxRosters == 3

\* The number of submissions a user makes.
MaxPosts == 3

\* The number of answers in an answers map.
MaxAnswers == 5

\* ------------------------------------------------------------ Python values

\* data.get("text"): None when the key is missing or null, else a string,
\* modelled as the sequence of its code points.
PyNone == [isNone |-> TRUE, str |-> <<>>]
PyStr(cs) == [isNone |-> FALSE, str |-> cs]

\* A string of n code points whose code points differ along its length.
TextOfLen(n) == [i \in 1..n |-> i % 7]

ChatTexts == {PyStr(TextOfLen(2))}
ShortTexts == {PyNone, PyStr(<<>>), PyStr(TextOfLen(2))}
LongTexts == {PyStr(TextOfLen(n)) : n \in {MaxTextLen - 1, MaxTextLen} \cup (MaxTextLen + 1 .. MaxTextLen + Over)}

\* A userId field the client may put in a chat_message payload: none, or any
\* user's id.
PayloadUserIds == {None} \cup Identities

\* The handshake's token argument: absent, the empty string, a string that
\* is no JWT, or a JWT with a signature (made with JWT_SECRET or not), an
\* expiry time and a subject.
NoJwt(kind) == [kind |-> kind, sigOk |-> FALSE, exp |-> 0, sub |-> None]
Jwt(sigOk, exp, sub) == [kind |-> "jwt", sigOk |-> sigOk, exp |-> exp, sub |-> sub]
Tokens == {NoJwt("missing"), NoJwt("empty"), NoJwt("malformed")} \cup {Jwt(g, e, u) : g \in BOOLEAN, e \in {0, 900}, u \in Identities}

\* The tokens a client may present: the client of s1 is signed in as u1, the
\* client of s3 as u2, and the client of s2 as either.
TokensOf(s) == {t \in Tokens : t.kind = "jwt" => t.sub \in (IF s = "s1" THEN {"u1"} ELSE IF s = "s3" THEN {"u2"} ELSE Identities)}

\* The connections, rooms and texts of the smaller specifications.
TextSids == {"s1", "s2"}
TextRooms == {"r1"}
\* The connections whose queues are followed: two of one process.
FifoSids == {"s1", "s2"}

FifoRooms == {"r1"}

\* The connections and the room of the interleaved handlers.
ConcSids == {"s1", "s2"}
ConcRooms == {"r1"}

TimedSids == {"s1"}
TimedRooms == {"r1"}

\* ------------------------------------------------------------------ state

VARIABLES
  now,          \* the time, in seconds
  storeUp,      \* Redis answers (r is a client and its calls do not raise)
  status,       \* per connection: "new", "refused", "connected", "closed"
  uid,          \* per connection: request.environ["uid"]
  rooms,        \* per connection: the Socket.IO rooms it is in, on its process
  members,      \* per room: the Redis set room:<id>:online
  presence,     \* per identity: the expiry time of the key online:<uid>, if set
  refreshedAt,  \* per identity: when connect or heartbeat last set its key, if ever
  connectedEvents, \* per connection: the `connected` events it has received
  last,         \* the event handled by the last step, with its input
  out,          \* what the last step emitted, and the connections that got it
  inbox,        \* per connection: the events sent to it, in the order of arrival
  seq,          \* the number of events published so far that were followed
  logCap,       \* how many publications are followed into the inboxes
  handler,      \* per connection: how far its running join or leave handler is
  questions,    \* per user: the assessment_count of each of the user's documents
  post,         \* per POST /questions request: how far save_questions is
  posted,       \* per user: the POST /questions requests answered with 201
  scoring       \* an answers map and the risk level each fallback scorer gave it

vars == <<now, storeUp, status, uid, rooms, members, presence, refreshedAt, connectedEvents, last, out, inbox, seq, logCap, handler, questions, post, posted, scoring>>

NoEvent == [event |-> "none", roomId |-> None, userId |-> None, users |-> {}, text |-> <<>>, to |-> {}]

Op(op, s, u, room, text, token) == [op |-> op, sid |-> s, uid |-> u, roomId |-> room, text |-> text, token |-> token, claimed |-> None]
EnvOp(op) == Op(op, None, None, None, PyNone, NoJwt("missing"))

\* The answers a questionnaire offers, and one it does not.
AnswerTexts == {"Not at all", "Sometimes", "Often", "Almost every day", "Rarely"}

\* payload.get("answers", {}): the answers in the order of answers.values(),
\* none to MaxAnswers of them.
AnswerMaps == UNION {[1..n -> AnswerTexts] : n \in 0..MaxAnswers}

\* An answers map that no scorer has scored yet.
Unscored(answers) == [answers |-> answers, inline |-> "none", predictor |-> "none"]

\* The requests to POST /questions that may be in progress together.
Posts == {"q1", "q2"}

\* No save_questions is running for the request.
NoPost == [at |-> "idle", uid |-> None, existing |-> {}]

\* No handler of the connection is running.
Idle == [at |-> "idle", op |-> "none", roomId |-> None, users |-> {}]

Init ==
  /\ now = 0
  /\ storeUp \in BOOLEAN
  /\ status = [s \in Sids |-> "new"]
  /\ uid = [s \in Sids |-> None]
  /\ rooms = [s \in Sids |-> {}]
  /\ members = [room \in Rooms |-> {}]
  /\ presence = [u \in Identities |-> {}]
  /\ refreshedAt = [u \in Identities |-> {}]
  /\ connectedEvents = [s \in Sids |-> 0]
  /\ last = EnvOp("start")
  /\ out = NoEvent
  /\ inbox = [s \in Sids |-> <<>>]
  /\ seq = 0
  /\ logCap = 0
  /\ handler = [s \in Sids |-> Idle]
  /\ questions = [u \in Identities |-> <<>>]
  /\ post = [q \in Posts |-> NoPost]
  /\ posted = [u \in Identities |-> 0]
  /\ scoring = Unscored(<<>>)

\* The same start, with the first MaxLog publications to rooms followed to
\* their recipients.
InitFifo ==
  /\ now = 0
  /\ storeUp \in BOOLEAN
  /\ status = [s \in Sids |-> "new"]
  /\ uid = [s \in Sids |-> None]
  /\ rooms = [s \in Sids |-> {}]
  /\ members = [room \in Rooms |-> {}]
  /\ presence = [u \in Identities |-> {}]
  /\ refreshedAt = [u \in Identities |-> {}]
  /\ connectedEvents = [s \in Sids |-> 0]
  /\ last = EnvOp("start")
  /\ out = NoEvent
  /\ inbox = [s \in Sids |-> <<>>]
  /\ seq = 0
  /\ logCap = MaxLog
  /\ handler = [s \in Sids |-> Idle]
  /\ questions = [u \in Identities |-> <<>>]
  /\ post = [q \in Posts |-> NoPost]
  /\ posted = [u \in Identities |-> 0]
  /\ scoring = Unscored(<<>>)

\* The same start, with the first MaxRosters rosters followed to their
\* recipients.
InitConc ==
  /\ now = 0
  /\ storeUp \in BOOLEAN
  /\ status = [s \in Sids |-> "new"]
  /\ uid = [s \in Sids |-> None]
  /\ rooms = [s \in Sids |-> {}]
  /\ members = [room \in Rooms |-> {}]
  /\ presence = [u \in Identities |-> {}]
  /\ refreshedAt = [u \in Identities |-> {}]
  /\ connectedEvents = [s \in Sids |-> 0]
  /\ last = EnvOp("start")
  /\ out = NoEvent
  /\ inbox = [s \in Sids |-> <<>>]
  /\ seq = 0
  /\ logCap = MaxRosters
  /\ handler = [s \in Sids |-> Idle]
  /\ questions = [u \in Identities |-> <<>>]
  /\ post = [q \in Posts |-> NoPost]
  /\ posted = [u \in Identities |-> 0]
  /\ scoring = Unscored(<<>>)

\* The same start, with an answers map for the fallback scorers.
InitScore ==
  /\ now = 0
  /\ storeUp \in BOOLEAN
  /\ status = [s \in Sids |-> "new"]
  /\ uid = [s \in Sids |-> None]
  /\ rooms = [s \in Sids |-> {}]
  /\ members = [room \in Rooms |-> {}]
  /\ presence = [u \in Identities |-> {}]
  /\ refreshedAt = [u \in Identities |-> {}]
  /\ connectedEvents = [s \in Sids |-> 0]
  /\ last = EnvOp("start")
  /\ out = NoEvent
  /\ inbox = [s \in Sids |-> <<>>]
  /\ seq = 0
  /\ logCap = 0
  /\ handler = [s \in Sids |-> Idle]
  /\ questions = [u \in Identities |-> <<>>]
  /\ post = [q \in Posts |-> NoPost]
  /\ posted = [u \in Identities |-> 0]
  /\ scoring \in {Unscored(answers) : answers \in AnswerMaps}

\* ------------------------------------------------------ presence helpers

\* set_online with half the expiry.
set_online_short(pres, user_id) == IF storeUp THEN [pres EXCEPT ![user_id] = {now + (TTL \div 2)}] ELSE pres

\* r.setex(f"online:{user_id}", 60, "1"), a no-op when Redis is unavailable.
set_online(pres, user_id) == IF storeUp THEN [pres EXCEPT ![user_id] = {now + TTL}] ELSE pres

\* r.sadd(f"room:{room_id}:online", user_id)
add_to_room(mem, room_id, user_id) == IF storeUp THEN [mem EXCEPT ![room_id] = @ \cup {user_id}] ELSE mem

\* remove_from_room with the srem left out.
remove_from_room_kept(mem, room_id, user_id) == mem

\* r.srem(f"room:{room_id}:online", user_id)
remove_from_room(mem, room_id, user_id) == IF storeUp THEN [mem EXCEPT ![room_id] = @ \ {user_id}] ELSE mem

\* room_users reconciled against liveness: only the members whose key
\* online:<uid> has not expired.
room_users_reconciled(mem, room_id) == IF storeUp THEN {u \in mem[room_id] : \E expiry \in presence[u] : now <= expiry} ELSE {}

\* r.smembers(f"room:{room_id}:online"), [] when Redis is unavailable.
room_users(mem, room_id) == IF storeUp THEN mem[room_id] ELSE {}

\* Redis keeps a key through its expiry time and drops it after.
Online(u) == \E expiry \in presence[u] : now <= expiry

\* ------------------------------------------------------------ Socket.IO

\* decode_token without the signature check.
decode_token_unverified(token) == IF token.kind = "jwt" /\ now < token.exp THEN [ok |-> TRUE, sub |-> token.sub] ELSE [ok |-> FALSE, sub |-> None]

\* decode_token: the claims of a well-formed, rightly signed, unexpired JWT.
decode_token(token) == IF token.kind = "jwt" /\ token.sigOk /\ now < token.exp THEN [ok |-> TRUE, sub |-> token.sub] ELSE [ok |-> FALSE, sub |-> None]

\* emit(..., to=room_id): the server has no message queue, so the event goes
\* to the connections of the emitting process that are in the room.
Recipients(proc, room_id, rms) == {x \in Sids : ProcOf(x) = proc /\ status[x] = "connected" /\ room_id \in rms[x]}

\* emit(..., broadcast=True): every connected client of the process.
EmitToAll(s) == {x \in Sids : x = s \/ (ProcOf(x) = ProcOf(s) /\ status[x] = "connected")}

\* emit(...) with no `to`: the event goes to the client whose event is handled.
EmitToSelf(s) == {s}

\* The event put at the head of each recipient's queue.
DeliverFront(box, to, e) == [x \in Sids |-> IF x \in to THEN <<e>> \o box[x] ELSE box[x]]

\* emit(...) returns after the server has queued the event's packet behind
\* the packets already queued for each recipient.
Deliver(box, to, e) == [x \in Sids |-> IF x \in to THEN Append(box[x], e) ELSE box[x]]

\* What the handler published to a room reaches the room's local connections;
\* the handlers that publish nothing to a room leave the queues alone.
Emitted ==
  /\ logCap' = logCap
  /\ IF out'.roomId # None /\ out'.to # {} /\ seq < logCap
     THEN /\ seq' = seq + 1
          /\ inbox' = Deliver(inbox, out'.to, [n |-> seq + 1, proc |-> ProcOf(last'.sid), event |-> out'.event, roomId |-> out'.roomId, users |-> out'.users, from |-> last'.sid])
     ELSE UNCHANGED <<inbox, seq>>

\* The slice taken one code point too long.
TruncateOffByOne(text) == IF text.isNone THEN <<>> ELSE SubSeq(text.str, 1, IF Len(text.str) < MaxTextLen + 1 THEN Len(text.str) ELSE MaxTextLen + 1)

\* The slice taken one code point too short.
TruncateShort(text) == IF text.isNone THEN <<>> ELSE SubSeq(text.str, 1, IF Len(text.str) < MaxTextLen - 1 THEN Len(text.str) ELSE MaxTextLen - 1)

\* (data.get("text") or "")[:2000]
Truncate(text) == IF text.isNone THEN <<>> ELSE SubSeq(text.str, 1, IF Len(text.str) < MaxTextLen THEN Len(text.str) ELSE MaxTextLen)

\* on_connect with set_online not catching the store's error: the handler's
\* own except clause then refuses the handshake.
on_connect_unguarded(s, token) ==
  /\ status[s] = "new"
  /\ last' = Op("connect", s, decode_token(token).sub, None, PyNone, token)
  /\ IF token.kind \in {"missing", "empty"} \/ ~decode_token(token).ok \/ ~storeUp
     THEN /\ status' = [status EXCEPT ![s] = "refused"]
          /\ out' = NoEvent
          /\ UNCHANGED <<uid, presence, refreshedAt, connectedEvents>>
     ELSE /\ status' = [status EXCEPT ![s] = "connected"]
          /\ uid' = [uid EXCEPT ![s] = decode_token(token).sub]
          /\ presence' = set_online(presence, decode_token(token).sub)
          /\ refreshedAt' = [refreshedAt EXCEPT ![decode_token(token).sub] = {now}]
          /\ out' = [NoEvent EXCEPT !.event = "connected", !.userId = decode_token(token).sub, !.to = EmitToSelf(s)]
          /\ connectedEvents' = [x \in Sids |-> IF x \in EmitToSelf(s) THEN connectedEvents[x] + 1 ELSE connectedEvents[x]]
  /\ UNCHANGED <<now, storeUp, rooms, members>>
  /\ Emitted
  /\ UNCHANGED scoring
  /\ UNCHANGED <<handler, questions, post, posted>>

on_connect(s, token) ==
  /\ status[s] = "new"
  /\ last' = Op("connect", s, decode_token(token).sub, None, PyNone, token)
  /\ IF token.kind \in {"missing", "empty"} \/ ~decode_token(token).ok
     THEN /\ status' = [status EXCEPT ![s] = "refused"]
          /\ out' = NoEvent
          /\ UNCHANGED <<uid, presence, refreshedAt, connectedEvents>>
     ELSE /\ status' = [status EXCEPT ![s] = "connected"]
          /\ uid' = [uid EXCEPT ![s] = decode_token(token).sub]
          /\ presence' = set_online(presence, decode_token(token).sub)
          /\ refreshedAt' = IF storeUp THEN [refreshedAt EXCEPT ![decode_token(token).sub] = {now}] ELSE refreshedAt
          /\ out' = [NoEvent EXCEPT !.event = "connected", !.userId = decode_token(token).sub, !.to = EmitToSelf(s)]
          /\ connectedEvents' = [x \in Sids |-> IF x \in EmitToSelf(s) THEN connectedEvents[x] + 1 ELSE connectedEvents[x]]
  /\ UNCHANGED <<now, storeUp, rooms, members>>
  /\ Emitted
  /\ UNCHANGED scoring
  /\ UNCHANGED <<handler, questions, post, posted>>

on_join(s, room_id) ==
  /\ status[s] = "connected"
  /\ last' = Op("join", s, uid[s], room_id, PyNone, NoJwt("missing"))
  /\ rooms' = [rooms EXCEPT ![s] = @ \cup {room_id}]
  /\ members' = add_to_room(members, room_id, uid[s])
  /\ out' = [NoEvent EXCEPT !.event = "room_users", !.roomId = room_id, !.users = room_users(members', room_id), !.to = Recipients(ProcOf(s), room_id, rooms')]
  /\ UNCHANGED <<now, storeUp, status, uid, presence, refreshedAt, connectedEvents>>
  /\ Emitted
  /\ UNCHANGED scoring
  /\ UNCHANGED <<handler, questions, post, posted>>

on_leave(s, room_id) ==
  /\ status[s] = "connected"
  /\ last' = Op("leave", s, uid[s], room_id, PyNone, NoJwt("missing"))
  /\ rooms' = [rooms EXCEPT ![s] = @ \ {room_id}]
  /\ members' = remove_from_room(members, room_id, uid[s])
  /\ out' = [NoEvent EXCEPT !.event = "room_users", !.roomId = room_id, !.users = room_users(members', room_id), !.to = Recipients(ProcOf(s), room_id, rooms')]
  /\ UNCHANGED <<now, storeUp, status, uid, presence, refreshedAt, connectedEvents>>
  /\ Emitted
  /\ UNCHANGED scoring
  /\ UNCHANGED <<handler, questions, post, posted>>

\* on_message taking the sender from the payload when it names one.
on_message_trusting(s, room_id, text, claimed) ==
  /\ status[s] = "connected"
  /\ last' = [Op("message", s, uid[s], room_id, text, NoJwt("missing")) EXCEPT !.claimed = claimed]
  /\ out' = [NoEvent EXCEPT !.event = "chat_message", !.roomId = room_id, !.userId = (IF claimed = None THEN uid[s] ELSE claimed), !.text = Truncate(text), !.to = Recipients(ProcOf(s), room_id, rooms)]
  /\ UNCHANGED <<now, storeUp, status, uid, rooms, members, presence, refreshedAt, connectedEvents>>
  /\ Emitted
  /\ UNCHANGED scoring
  /\ UNCHANGED <<handler, questions, post, posted>>

\* The payload's text and roomId are read; anything else in it, such as a
\* userId the client claims, is ignored.
on_message(s, room_id, text, claimed) ==
  /\ status[s] = "connected"
  /\ last' = [Op("message", s, uid[s], room_id, text, NoJwt("missing")) EXCEPT !.claimed = claimed]
  /\ out' = [NoEvent EXCEPT !.event = "chat_message", !.roomId = room_id, !.userId = uid[s], !.text = Truncate(text), !.to = Recipients(ProcOf(s), room_id, rooms)]
  /\ UNCHANGED <<now, storeUp, status, uid, rooms, members, presence, refreshedAt, connectedEvents>>
  /\ Emitted
  /\ UNCHANGED scoring
  /\ UNCHANGED <<handler, questions, post, posted>>

\* on_heartbeat that also re-adds the identity to the rooms of the connection
\* and publishes their rosters.
on_heartbeat_rejoining(s) ==
  /\ status[s] = "connected"
  /\ last' = Op("heartbeat", s, uid[s], None, PyNone, NoJwt("missing"))
  /\ presence' = set_online(presence, uid[s])
  /\ refreshedAt' = IF storeUp THEN [refreshedAt EXCEPT ![uid[s]] = {now}] ELSE refreshedAt
  /\ members' = [room \in Rooms |-> IF room \in rooms[s] /\ storeUp THEN members[room] \cup {uid[s]} ELSE members[room]]
  /\ out' = IF rooms[s] = {} THEN NoEvent ELSE [NoEvent EXCEPT !.event = "room_users", !.to = {s}]
  /\ UNCHANGED <<now, storeUp, status, uid, rooms, connectedEvents>>
  /\ Emitted
  /\ UNCHANGED scoring
  /\ UNCHANGED <<handler, questions, post, posted>>

on_heartbeat(s) ==
  /\ status[s] = "connected"
  /\ last' = Op("heartbeat", s, uid[s], None, PyNone, NoJwt("missing"))
  /\ presence' = set_online(presence, uid[s])
  /\ refreshedAt' = IF storeUp THEN [refreshedAt EXCEPT ![uid[s]] = {now}] ELSE refreshedAt
  /\ out' = NoEvent
  /\ UNCHANGED <<now, storeUp, status, uid, rooms, members, connectedEvents>>
  /\ Emitted
  /\ UNCHANGED scoring
  /\ UNCHANGED <<handler, questions, post, posted>>

\* A disconnect after which the connection can shake hands again.
on_disconnect_reopening(s) ==
  /\ status[s] = "connected"
  /\ last' = Op("disconnect", s, uid[s], None, PyNone, NoJwt("missing"))
  /\ status' = [status EXCEPT ![s] = "new"]
  /\ rooms' = [rooms EXCEPT ![s] = {}]
  /\ uid' = [uid EXCEPT ![s] = None]
  /\ out' = NoEvent
  /\ UNCHANGED <<now, storeUp, members, presence, refreshedAt, connectedEvents>>
  /\ Emitted
  /\ UNCHANGED scoring
  /\ UNCHANGED <<handler, questions, post, posted>>

\* The transport closes: Socket.IO drops the connection from its rooms and
\* runs the handler, whose body is pass.
on_disconnect(s) ==
  /\ status[s] = "connected"
  /\ last' = Op("disconnect", s, uid[s], None, PyNone, NoJwt("missing"))
  /\ status' = [status EXCEPT ![s] = "closed"]
  /\ rooms' = [rooms EXCEPT ![s] = {}]
  /\ uid' = [uid EXCEPT ![s] = None]
  /\ out' = NoEvent
  /\ UNCHANGED <<now, storeUp, members, presence, refreshedAt, connectedEvents>>
  /\ Emitted
  /\ UNCHANGED scoring
  /\ UNCHANGED <<handler, questions, post, posted>>

\* ------------------------------------------- handlers, statement by statement

\* on_join up to its store write: join_room(room_id); add_to_room(room_id, uid).
on_join_begin(s, room_id) ==
  /\ status[s] = "connected" /\ handler[s] = Idle
  /\ last' = Op("join:add_to_room", s, uid[s], room_id, PyNone, NoJwt("missing"))
  /\ rooms' = [rooms EXCEPT ![s] = @ \cup {room_id}]
  /\ members' = add_to_room(members, room_id, uid[s])
  /\ handler' = [handler EXCEPT ![s] = [at |-> "stored", op |-> "join", roomId |-> room_id, users |-> {}]]
  /\ UNCHANGED <<questions, post, posted>>
  /\ out' = NoEvent
  /\ UNCHANGED <<now, storeUp, status, uid, presence, refreshedAt, connectedEvents>>
  /\ Emitted
  /\ UNCHANGED scoring

\* on_leave up to its store write: leave_room(room_id);
\* remove_from_room(room_id, uid).
on_leave_begin(s, room_id) ==
  /\ status[s] = "connected" /\ handler[s] = Idle
  /\ last' = Op("leave:remove_from_room", s, uid[s], room_id, PyNone, NoJwt("missing"))
  /\ rooms' = [rooms EXCEPT ![s] = @ \ {room_id}]
  /\ members' = remove_from_room(members, room_id, uid[s])
  /\ handler' = [handler EXCEPT ![s] = [at |-> "stored", op |-> "leave", roomId |-> room_id, users |-> {}]]
  /\ UNCHANGED <<questions, post, posted>>
  /\ out' = NoEvent
  /\ UNCHANGED <<now, storeUp, status, uid, presence, refreshedAt, connectedEvents>>
  /\ Emitted
  /\ UNCHANGED scoring

\* The argument of emit is evaluated: room_users(room_id) reads the set.
roster_read(s) ==
  /\ handler[s].at = "stored"
  /\ last' = Op("room_users", s, uid[s], handler[s].roomId, PyNone, NoJwt("missing"))
  /\ handler' = [handler EXCEPT ![s].at = "read", ![s].users = room_users(members, handler[s].roomId)]
  /\ UNCHANGED <<questions, post, posted>>
  /\ out' = NoEvent
  /\ UNCHANGED <<now, storeUp, status, uid, rooms, members, presence, refreshedAt, connectedEvents>>
  /\ Emitted
  /\ UNCHANGED scoring

\* emit("room_users", {...}, to=room_id) with the users read before.
roster_emit(s) ==
  /\ handler[s].at = "read"
  /\ last' = Op("emit", s, uid[s], handler[s].roomId, PyNone, NoJwt("missing"))
  /\ out' = [NoEvent EXCEPT !.event = "room_users", !.roomId = handler[s].roomId, !.users = handler[s].users, !.to = Recipients(ProcOf(s), handler[s].roomId, rooms)]
  /\ handler' = [handler EXCEPT ![s] = Idle]
  /\ UNCHANGED <<questions, post, posted>>
  /\ UNCHANGED <<now, storeUp, status, uid, rooms, members, presence, refreshedAt, connectedEvents>>
  /\ Emitted
  /\ UNCHANGED scoring

\* ------------------------------------------------------- fallback scorers

\* The loop of the inline fallback of save_questions: an answer that is none
\* of the four adds nothing.
RECURSIVE risk_score(_)
risk_score(answers) ==
  IF answers = <<>> THEN 0
  ELSE risk_score(Tail(answers)) +
       (IF Head(answers) = "Not at all" THEN 0
        ELSE IF Head(answers) = "Sometimes" THEN 1
        ELSE IF Head(answers) = "Often" THEN 2
        ELSE IF Head(answers) = "Almost every day" THEN 3
        ELSE 0)

\* The inline maximum taken as that of the full questionnaire.
max_possible_score_fixed(answers) == 45

\* len(answers) * 3 if answers else 45
max_possible_score(answers) == IF answers # <<>> THEN Len(answers) * 3 ELSE 45

\* The inline fallback's level. risk_percentage = (risk_score /
\* max_possible_score) * 100 if max_possible_score > 0 else 0, compared with
\* 60 and 30; the comparisons are made on the fractions.
inline_risk_level(answers) ==
  IF max_possible_score(answers) > 0 /\ risk_score(answers) * 100 >= 60 * max_possible_score(answers) THEN "high"
  ELSE IF max_possible_score(answers) > 0 /\ risk_score(answers) * 100 >= 30 * max_possible_score(answers) THEN "medium"
  ELSE "low"

\* answer_mapping.get(answer, 0)
answer_mapping(answer) ==
  CASE answer = "Not at all" -> 0
    [] answer = "Sometimes" -> 1
    [] answer = "Often" -> 2
    [] answer = "Almost every day" -> 3
    [] OTHER -> 0

\* sum(answer_mapping.get(answer, 0) for answer in answers.values())
RECURSIVE total_score(_)
total_score(answers) == IF answers = <<>> THEN 0 ELSE answer_mapping(Head(answers)) + total_score(Tail(answers))

\* len(answers) * 3
max_score(answers) == Len(answers) * 3

\* The risk_level of _fallback_scoring(answers). percentage = (total_score /
\* max_score) * 100 if max_score > 0 else 0, compared with 60 and 30.
fallback_risk_level(answers) ==
  IF max_score(answers) > 0 /\ total_score(answers) * 100 >= 60 * max_score(answers) THEN "high"
  ELSE IF max_score(answers) > 0 /\ total_score(answers) * 100 >= 30 * max_score(answers) THEN "medium"
  ELSE "low"

\* save_questions scores the answers itself after the prediction raised.
save_questions_fallback ==
  /\ scoring.inline = "none"
  /\ scoring' = [scoring EXCEPT !.inline = inline_risk_level(scoring.answers)]
  /\ last' = EnvOp("save_questions:fallback")
  /\ out' = NoEvent
  /\ UNCHANGED <<now, storeUp, status, uid, rooms, members, presence, refreshedAt, connectedEvents, handler, questions, post, posted>>
  /\ UNCHANGED <<inbox, seq, logCap>>

\* MentalHealthMLPredictor._fallback_scoring scores the same answers.
fallback_scoring ==
  /\ scoring.predictor = "none"
  /\ scoring' = [scoring EXCEPT !.predictor = fallback_risk_level(scoring.answers)]
  /\ last' = EnvOp("_fallback_scoring")
  /\ out' = NoEvent
  /\ UNCHANGED <<now, storeUp, status, uid, rooms, members, presence, refreshedAt, connectedEvents, handler, questions, post, posted>>
  /\ UNCHANGED <<inbox, seq, logCap>>

\* -------------------------------------------------------- POST /questions

\* save_questions up to its read of the collection. A request is answered
\* 503, 404 or 500 before that when a database is unavailable or the user is
\* unknown; otherwise existing_assessment = questions_col.find_one({"userId":
\* uid}), the user's first document if there is one.
save_questions_find(q, user_id, answer) ==
  /\ post[q] = NoPost
  /\ posted[user_id] < MaxPosts
  /\ last' = [EnvOp("post:find_one") EXCEPT !.uid = user_id]
  /\ post' = IF answer = 201
             THEN [post EXCEPT ![q] = [at |-> "found", uid |-> user_id, existing |-> IF questions[user_id] = <<>> THEN {} ELSE {Head(questions[user_id])}]]
             ELSE post
  /\ out' = NoEvent
  /\ UNCHANGED <<now, storeUp, status, uid, rooms, members, presence, refreshedAt, connectedEvents, handler, questions, posted>>
  /\ Emitted
  /\ UNCHANGED scoring

\* replace_one({"userId": uid}, doc): the first document of the user, if any,
\* becomes doc.
replace_one(docs, count) == IF docs = <<>> THEN docs ELSE <<count>> \o Tail(docs)

\* insert_one(doc)
insert_one(docs, count) == Append(docs, count)

\* The rest of save_questions: the document found is replaced by one that
\* counts one more assessment, or a first document is inserted; the answer is
\* 201.
save_questions_write(q) ==
  /\ post[q].at = "found"
  /\ last' = [EnvOp("post:write") EXCEPT !.uid = post[q].uid]
  /\ questions' = [questions EXCEPT ![post[q].uid] =
                     IF post[q].existing # {}
                     THEN replace_one(@, (CHOOSE n \in post[q].existing : TRUE) + 1)
                     ELSE insert_one(@, 1)]
  /\ posted' = [posted EXCEPT ![post[q].uid] = @ + 1]
  /\ post' = [post EXCEPT ![q] = NoPost]
  /\ out' = NoEvent
  /\ UNCHANGED <<now, storeUp, status, uid, rooms, members, presence, refreshedAt, connectedEvents, handler>>
  /\ Emitted
  /\ UNCHANGED scoring

\* ------------------------------------------------------------ environment

StoreFail ==
  /\ storeUp
  /\ storeUp' = FALSE
  /\ last' = EnvOp("store_fail")
  /\ out' = NoEvent
  /\ UNCHANGED <<now, status, uid, rooms, members, presence, refreshedAt, connectedEvents, inbox, seq, logCap, handler, questions, post, posted, scoring>>

StoreRecover ==
  /\ ~storeUp
  /\ storeUp' = TRUE
  /\ last' = EnvOp("store_recover")
  /\ out' = NoEvent
  /\ UNCHANGED <<now, status, uid, rooms, members, presence, refreshedAt, connectedEvents, inbox, seq, logCap, handler, questions, post, posted, scoring>>

Tick ==
  /\ now < MaxTime
  /\ now' = now + 1
  /\ last' = EnvOp("tick")
  /\ out' = NoEvent
  /\ UNCHANGED <<storeUp, status, uid, rooms, members, presence, refreshedAt, connectedEvents, inbox, seq, logCap, handler, questions, post, posted, scoring>>

\* ---------------------------------------------------------- specifications

\* The handlers, for events of the connections S about the rooms R with the
\* texts T and the claimed user ids U.
Handlers(S, R, T, U) ==
  \/ \E s \in S : \E token \in TokensOf(s) : on_connect(s, token)
  \/ \E s \in S, room_id \in R : on_join(s, room_id)
  \/ \E s \in S, room_id \in R : on_leave(s, room_id)
  \/ \E s \in S, room_id \in R, text \in T, claimed \in U : on_message(s, room_id, text, claimed)
  \/ \E s \in S : on_heartbeat(s)
  \/ \E s \in S : on_disconnect(s)

\* All connections and rooms, within one second.
Next ==
  \/ Handlers(Sids, Rooms, ChatTexts, {None})
  \/ StoreFail
  \/ StoreRecover

Spec == Init /\ [][Next]_vars

\* Texts around and beyond the limit of on_message, and payloads that claim a
\* sender.
NextText ==
  \/ Handlers(TextSids, TextRooms, ShortTexts \cup LongTexts, PayloadUserIds)
  \/ StoreFail
  \/ StoreRecover

SpecText == Init /\ [][NextText]_vars

\* One connection, with time passing.
NextTimed ==
  \/ Handlers(TimedSids, TimedRooms, ChatTexts, {None})
  \/ StoreFail
  \/ StoreRecover
  \/ Tick

SpecTimed == Init /\ [][NextTimed]_vars

\* Two connections of one process and one room, every publication to the room
\* followed until MaxLog of them were made.
NextFifo ==
  \/ Handlers(FifoSids, FifoRooms, ChatTexts, {None})

SpecFifo == InitFifo /\ [][NextFifo]_vars

\* Two connections of one process whose join and leave handlers for one room
\* interleave statement by statement, as they do when the server runs each
\* handler in a thread of its own.
NextConc ==
  \/ \E s \in ConcSids : \E token \in TokensOf(s) : on_connect(s, token)
  \/ \E s \in ConcSids, room_id \in ConcRooms : on_join_begin(s, room_id)
  \/ \E s \in ConcSids, room_id \in ConcRooms : on_leave_begin(s, room_id)
  \/ \E s \in ConcSids : roster_read(s)
  \/ \E s \in ConcSids : roster_emit(s)

SpecConc == InitConc /\ [][NextConc]_vars

\* The answers of POST /questions: saved, a database unavailable, user not
\* found, failure.
PostAnswers == {201, 503, 404, 500}

\* Requests to POST /questions, each in a thread of the server.
NextPost ==
  \/ \E q \in Posts, user_id \in Identities, answer \in PostAnswers : save_questions_find(q, user_id, answer)
  \/ \E q \in Posts : save_questions_write(q)

SpecPost == Init /\ [][NextPost]_vars

\* The two fallback scorers applied to one answers map.
NextScore ==
  \/ save_questions_fallback
  \/ fallback_scoring

SpecScore == InitScore /\ [][NextScore]_vars

\* ------------------------------------------------------------------ claims

\* A token that passes the handshake: present, a JWT, signed with the
\* gateway's secret, not expired.
ValidToken(token) == token.kind = "jwt" /\ token.sigOk /\ token.exp > now

ConnectedSids == {x \in Sids : status[x] = "connected"}

\* C1: a handshake whose token is missing, malformed, badly signed or expired
\* is refused; no `connected` event is emitted for it, then or later; and the
\* step that refuses it changes no presence record and no room membership.
C1_InvalidTokenRefused ==
  /\ [](last.op = "connect" /\ ~ValidToken(last.token) => status[last.sid] = "refused" /\ out = NoEvent)
  /\ [](\A s \in Sids : status[s] = "refused" => connectedEvents[s] = 0 /\ s \notin out.to)
  /\ [][\A s \in Sids : status[s] # "refused" /\ status'[s] = "refused" => UNCHANGED <<presence, refreshedAt, members, rooms, uid, connectedEvents>>]_vars

\* C1's case: a badly signed token naming a user who is online in a room was
\* refused.
C1_Witness ==
  /\ last.op = "connect"
  /\ last.token.kind = "jwt" /\ ~last.token.sigOk /\ last.token.exp > now
  /\ status[last.sid] = "refused"
  /\ presence[last.token.sub] # {}
  /\ \E room \in Rooms : last.token.sub \in members[room]

\* C2: a handshake with a valid token emits exactly one `connected` event,
\* whose userId is the token's subject, to the connecting client and to no
\* other connection.
C2_ConnectedEvent ==
  /\ last.op = "connect" /\ ValidToken(last.token) =>
       /\ status[last.sid] = "connected"
       /\ out.event = "connected" /\ out.userId = last.token.sub /\ out.to = {last.sid}
  /\ out.event = "connected" => last.op = "connect" /\ ValidToken(last.token)
  /\ \A s \in Sids : connectedEvents[s] = (IF status[s] \in {"connected", "closed"} THEN 1 ELSE 0)

\* C2's case: a valid handshake while another client of the process is
\* connected.
C2_Witness ==
  /\ last.op = "connect" /\ ValidToken(last.token)
  /\ out.event = "connected"
  /\ \E x \in ConnectedSids : x # last.sid /\ ProcOf(x) = ProcOf(last.sid)

\* What the original C3 says of the step just taken: after a join the
\* identity is in the room's member set, after a leave it is not.
C3_Original ==
  /\ last.op = "join" => last.uid \in members[last.roomId]
  /\ last.op = "leave" => last.uid \notin members[last.roomId]

\* C3 (amended): a join_room by identity U for room R handled while the store
\* is available leaves U in members(R), a leave_room handled while it is
\* available leaves U out of members(R), and whether U is in members(R)
\* changes only in a join_room or leave_room step of a connection of U for R;
\* a join or leave handled while the store is unavailable changes no
\* membership.
C3_Roster ==
  /\ [](last.op = "join" /\ storeUp => last.uid \in members[last.roomId])
  /\ [](last.op = "leave" /\ storeUp => last.uid \notin members[last.roomId])
  /\ [][\A room \in Rooms, u \in Identities :
          (u \in members[room]) # (u \in members'[room]) =>
            last'.op \in {"join", "leave"} /\ last'.roomId = room /\ last'.uid = u /\ storeUp]_vars

\* C3's case: an identity left a room it was a member of, while another
\* identity stays a member.
C3_Witness ==
  /\ last.op = "leave" /\ storeUp
  /\ last.uid \notin members[last.roomId]
  /\ members[last.roomId] # {}
  /\ \E s \in ConnectedSids : uid[s] = last.uid /\ s # last.sid /\ last.roomId \in rooms[s]

\* The clients joined to a room, on any process.
Joined(room) == {x \in ConnectedSids : room \in rooms[x]}

\* C4: every join_room for R results in a `room_users` event for R whose
\* users are the membership of R after the joiner was added, the joiner
\* among them, delivered to every client joined to R, the joiner included.
C4_JoinRoster ==
  last.op = "join" =>
    /\ out.event = "room_users" /\ out.roomId = last.roomId
    /\ out.users = members[last.roomId] /\ last.uid \in out.users
    /\ out.to = Joined(last.roomId) /\ last.sid \in out.to

\* C5: an event published by one process for room R is delivered to every
\* connection joined to R on a different process.
C5_CrossProcess ==
  last.op \in {"message", "join", "leave"} =>
    \A x \in Joined(last.roomId) : ProcOf(x) # ProcOf(last.sid) => x \in out.to

\* C6: a chat_message for a room its sender has not joined is delivered to
\* no client.
C6_NotJoinedRejected ==
  last.op = "message" /\ last.roomId \notin rooms[last.sid] => out.to = {}

\* a is the beginning of b.
IsPrefix(a, b) == Len(a) <= Len(b) /\ \A i \in 1..Len(a) : a[i] = b[i]

\* C7: a chat_message whose text has more than 2000 code points is handled
\* without error, and the text of the `chat_message` event it emits has
\* exactly 2000 code points and is a prefix of the input.
C7_Truncation ==
  last.op = "message" /\ ~last.text.isNone /\ Len(last.text.str) > 2000 =>
    /\ out.event = "chat_message"
    /\ Len(out.text) = 2000
    /\ IsPrefix(out.text, last.text.str)

\* C7's case: a text of more than 2001 code points was delivered to a client
\* other than its sender.
C7_Witness ==
  /\ last.op = "message" /\ ~last.text.isNone /\ Len(last.text.str) > 2001
  /\ out.event = "chat_message"
  /\ \E x \in out.to : x # last.sid

\* C8: a chat_message from a connection joined to R is delivered, with
\* roomId R and the truncated text, to exactly the clients joined to R then:
\* the sender and every other joined client, and no client that is not
\* joined.
C8_DeliveredToJoined ==
  last.op = "message" /\ last.roomId \in rooms[last.sid] =>
    /\ out.event = "chat_message" /\ out.roomId = last.roomId
    /\ out.text = (IF last.text.isNone THEN <<>> ELSE last.text.str)
    /\ out.to = Joined(last.roomId)

\* C9: when a connection that had joined rooms is closed, its identity is
\* removed from the member set of each of those rooms and a `room_users`
\* event is published.
C9_DisconnectCascade ==
  [][\A s \in Sids : status[s] = "connected" /\ status'[s] = "closed" =>
       \A room \in rooms[s] : uid[s] \notin members'[room] /\ out'.event = "room_users"]_vars

\* C10: a presence record that connect or heartbeat set at time T is online
\* at every time up to T + 60 and not online from T + 61 on, T being the
\* time of the latest such refresh.
C10_LivenessExpiry ==
  \A u \in Identities : \A T \in refreshedAt[u] : Online(u) <=> now <= T + 60

\* C10's case: the record of a connected identity, set after time 0, has expired 61
\* seconds after it was last set.
C10_Witness ==
  \E u \in Identities : \E T \in refreshedAt[u] :
    /\ T > 0 /\ now = T + 61 /\ ~Online(u)
    /\ \E s \in ConnectedSids : uid[s] = u

\* C11: each join_room, leave_room and chat_message handled for a connection
\* refreshes its identity's liveness record: after such a step that reached
\* the store, the record runs for 60 more seconds.
C11_ActivityRefreshes ==
  last.op \in {"join", "leave", "message"} /\ storeUp => presence[last.uid] = {now + 60}

\* The clients of a process that are joined to a room.
LocalJoined(proc, room) == {x \in Joined(room) : ProcOf(x) = proc}

\* C12: in every state where the store is unavailable, a valid handshake
\* succeeds with its `connected` event; join_room, leave_room and heartbeat
\* complete and leave the connection open; a chat_message is delivered to the
\* clients of the sender's process that are joined to its room; and no step
\* but a transport close ends a connection.
C12_OutageKeepsConnections ==
  /\ [](~storeUp /\ last.op = "connect" /\ ValidToken(last.token) =>
          status[last.sid] = "connected" /\ out.event = "connected" /\ out.to = {last.sid})
  /\ [](~storeUp /\ last.op \in {"join", "leave", "heartbeat", "message"} => status[last.sid] = "connected")
  /\ [](~storeUp /\ last.op = "message" =>
          out.event = "chat_message" /\ out.to = LocalJoined(ProcOf(last.sid), last.roomId))
  /\ [][\A s \in Sids : status[s] = "connected" /\ status'[s] # "connected" => last'.op = "disconnect" /\ last'.sid = s]_vars

\* C12's case: during an outage a message reached another client of the room,
\* whose handshake and join were also handled during the outage.
C12_Witness ==
  /\ ~storeUp /\ last.op = "message"
  /\ \E x \in out.to : x # last.sid /\ presence[uid[x]] = {} /\ uid[x] \notin members[last.roomId]

\* C13: while the store is unavailable no `room_users` event is delivered to
\* any client.
C13_NoRosterDuringOutage ==
  ~storeUp => ~(out.event = "room_users" /\ out.to # {})

\* C14: every leave_room for R publishes a `room_users` event for R carrying
\* the membership of R after the removal, also when it is empty and when the
\* connection had not joined R, and the event goes to the clients still
\* joined to R.
C14_LeaveRoster ==
  last.op = "leave" =>
    /\ out.event = "room_users" /\ out.roomId = last.roomId
    /\ out.users = members[last.roomId] /\ last.uid \notin out.users
    /\ out.to = Joined(last.roomId)

\* C15: on each connection and room the joined-room set follows the net
\* effect of its join_room and leave_room events, and joining a room already
\* joined or leaving a room not joined changes neither any joined-room set
\* nor any member set.
C15_Idempotent ==
  [][\A s \in Sids, room \in Rooms :
       /\ last'.op = "join" /\ last'.sid = s /\ last'.roomId = room =>
            /\ rooms' = [rooms EXCEPT ![s] = @ \cup {room}]
            /\ room \in rooms[s] => members' = members
       /\ last'.op = "leave" /\ last'.sid = s /\ last'.roomId = room =>
            /\ rooms' = [rooms EXCEPT ![s] = @ \ {room}]
            /\ room \notin rooms[s] => members' = members]_vars

\* C16: a heartbeat changes nothing but the liveness record of its sender's
\* identity: every member set, every joined-room set, every connection and
\* every other liveness record stay as they were, and no event is emitted.
C16_HeartbeatOnly ==
  /\ [](last.op = "heartbeat" => out = NoEvent)
  /\ [][last'.op = "heartbeat" =>
          /\ UNCHANGED <<members, rooms, status, uid, connectedEvents>>
          /\ \A u \in Identities \ {last'.uid} : presence'[u] = presence[u]]_vars

\* C16's case: a heartbeat refreshed the record of a connection that is in a
\* room whose member set lacks its identity.
C16_Witness ==
  /\ last.op = "heartbeat" /\ storeUp
  /\ presence[last.uid] # {}
  /\ \E room \in rooms[last.sid] : last.uid \notin members[room]

\* C17: the expiry of a liveness record changes no member set: an identity
\* leaves members(R) only in a leave_room step of one of its connections for
\* R, however long ago its record expired, and a roster read with the store
\* available is the whole member set, expired identities included.
C17_ExpiryKeepsMembership ==
  /\ [][\A room \in Rooms, u \in Identities :
          u \in members[room] /\ u \notin members'[room] =>
            last'.op = "leave" /\ last'.uid = u /\ last'.roomId = room]_vars
  /\ [](last.op \in {"join", "leave"} /\ storeUp => out.users = members[last.roomId])

\* C17's case: a roster published after the liveness record of one of its
\* identities has expired.
C17_Witness ==
  /\ last.op = "join" /\ storeUp
  /\ \E u \in out.users : presence[u] # {} /\ ~Online(u)

\* C18: a process is subscribed to room R exactly while one of its live
\* connections is joined to R: of every event published for R, each process
\* delivers it to a client of its own if and only if it has such a connection.
C18_Subscription ==
  last.op \in {"join", "leave", "message"} =>
    \A p \in Procs : (\E x \in out.to : ProcOf(x) = p) <=> LocalJoined(p, last.roomId) # {}

\* C19: the userId of every `chat_message` is the subject of the token
\* validated at the sender's handshake, whatever user id the payload claims,
\* and the identity of a connection does not change while it is connected.
C19_SenderIdentity ==
  /\ [](last.op = "connect" /\ ValidToken(last.token) => uid[last.sid] = last.token.sub)
  /\ [][\A s \in Sids : status[s] = "connected" /\ status'[s] = "connected" => uid'[s] = uid[s]]_vars
  /\ [](out.event = "chat_message" => last.op = "message" /\ out.userId = uid[last.sid])

\* C19's case: a message whose payload claims another user's id was delivered
\* to a client other than its sender.
C19_Witness ==
  /\ last.op = "message" /\ last.claimed \in Identities \ {uid[last.sid]}
  /\ \E x \in out.to : x # last.sid

C21_Lifecycle ==
  /\ [](last.op \in {"join", "leave", "message", "heartbeat"} => status[last.sid] = "connected" /\ connectedEvents[last.sid] = 1 /\ uid[last.sid] \in Identities)
  /\ [](last.op = "disconnect" => status[last.sid] = "closed" /\ rooms[last.sid] = {})
  /\ [][\A s \in Sids : status[s] = "closed" => status'[s] = "closed" /\ last'.sid # s /\ s \notin out'.to]_vars

\* C21's case: a connection is closed and another connection of its process
\* has just published to a room.
C21_Witness ==
  \E s \in Sids :
    /\ status[s] = "closed"
    /\ last.op \in {"join", "message"} /\ ProcOf(last.sid) = ProcOf(s)
    /\ out.to # {}

\* C22: a chat_message whose text has at most 2000 code points is delivered
\* with its text unchanged; a missing or null text is delivered as a message
\* with empty text, not rejected; and no delivered `chat_message` has a text of
\* more than 2000 code points.
C22_ShortTextKept ==
  /\ last.op = "message" /\ ~last.text.isNone /\ Len(last.text.str) <= 2000 => out.event = "chat_message" /\ out.text = last.text.str
  /\ last.op = "message" /\ last.text.isNone => out.event = "chat_message" /\ out.text = <<>>
  /\ out.event = "chat_message" => Len(out.text) <= 2000

\* C22's case: a message without a text was delivered to a client other than
\* its sender.
C22_Witness ==
  /\ last.op = "message" /\ last.text.isNone
  /\ out.event = "chat_message" /\ out.text = <<>>
  /\ \E x \in out.to : x # last.sid

\* Every live connection joined to a room has its identity in the members of
\* that room.
JoinedAreMembers == \A s \in ConnectedSids : \A room \in rooms[s] : uid[s] \in members[room]

\* C23: with the store available, every live connection joined to a room has
\* its identity in the members of that room, a property that every step taken
\* with the store available keeps; in particular an identity with two
\* connections joined to a room stays a member when one of them leaves.
C23_JoinedAreMembers ==
  [][storeUp /\ storeUp' /\ JoinedAreMembers => JoinedAreMembers']_vars

\* The places in the queue of connection x of the `room_users` events for a
\* room.
RosterEvents(x, room) == {i \in 1..Len(inbox[x]) : inbox[x][i].event = "room_users" /\ inbox[x][i].roomId = room}

\* C24: when join and leave handlers for a room ran concurrently and all have
\* completed, the last `room_users` event received by each client still joined
\* to the room carries the members the room then has.
C24_RosterConvergence ==
  (\A s \in Sids : handler[s] = Idle) /\ seq < logCap =>
    \A x \in ConnectedSids : \A room \in rooms[x] : \A i \in RosterEvents(x, room) :
      (\A j \in RosterEvents(x, room) : j <= i) => inbox[x][i].users = members[room]

\* C25: once the POST /questions requests of a user have been answered, the
\* collection holds at most one assessment document of the user, and its
\* assessment_count is the number of the user's successful submissions.
C25_OneAssessment ==
  (\A q \in Posts : post[q] = NoPost) =>
    \A u \in Identities :
      /\ Len(questions[u]) <= 1
      /\ posted[u] > 0 => Len(questions[u]) = 1 /\ questions[u][1] = posted[u]

\* The points of an answers map: 0 to 3 for the four answers in their order,
\* nothing for any other answer.
RECURSIVE Points(_)
Points(answers) ==
  IF answers = <<>> THEN 0
  ELSE Points(SubSeq(answers, 1, Len(answers) - 1)) +
       (CASE answers[Len(answers)] = "Sometimes" -> 1
          [] answers[Len(answers)] = "Often" -> 2
          [] answers[Len(answers)] = "Almost every day" -> 3
          [] OTHER -> 0)

\* Both scorers have scored the answers map.
BothScored == scoring.inline # "none" /\ scoring.predictor # "none"

\* The points are at least pct per cent of 3 x the number of answers.
AtLeast(pct, answers) == Points(answers) * 100 >= pct * 3 * Len(answers)

\* C26 as stated: the two fallback scorers give every answers map the same
\* risk level, which is high iff the score is at least 60% of 3 x the number of
\* answers, medium iff at least 30%, low otherwise; the empty map included.
C26_Original ==
  BothScored =>
    /\ scoring.inline = scoring.predictor
    /\ scoring.inline = "high" <=> AtLeast(60, scoring.answers)
    /\ scoring.inline = "medium" <=> AtLeast(30, scoring.answers) /\ ~AtLeast(60, scoring.answers)
    /\ scoring.inline = "low" <=> ~AtLeast(30, scoring.answers)

\* C26, amended: the two fallback scorers give every answers map the same risk
\* level; for a map with at least one answer it is high iff the score is at
\* least 60% of 3 x the number of answers, medium iff at least 30%, low
\* otherwise; for the empty map it is low.
C26_ScorersAgree ==
  BothScored =>
    /\ scoring.inline = scoring.predictor
    /\ scoring.answers # <<>> =>
         /\ scoring.inline = "high" <=> AtLeast(60, scoring.answers)
         /\ scoring.inline = "medium" <=> AtLeast(30, scoring.answers) /\ ~AtLeast(60, scoring.answers)
         /\ scoring.inline = "low" <=> ~AtLeast(30, scoring.answers)
    /\ scoring.answers = <<>> => scoring.inline = "low"

\* C26's case: both scorers scored a map with an unrecognised answer whose
\* score is exactly 60% of the maximum.
C26_Witness ==
  /\ BothScored
  /\ \E i \in 1..Len(scoring.answers) : scoring.answers[i] = "Rarely"
  /\ Len(scoring.answers) > 0
  /\ Points(scoring.answers) * 100 = 60 * 3 * Len(scoring.answers)
  /\ scoring.predictor = "high"

====
